---- MODULE Spec2Model ----
(***************************************************************************)
(* Model of the image-collection navigation subsystem of oculante:        *)
(* the Scrubber and the sequence builder (src/scrubber.rs), their use by   *)
(* the session loop (src/main.rs, src/appstate.rs), the decode cache       *)
(* (src/cache.rs) and the favourites store (src/db.rs).                    *)
(***************************************************************************)
EXTENDS Integers, Sequences, FiniteSets, TLC

(***************************************************************************)
(* Bounds of the model.                                                    *)
(***************************************************************************)
\* longest entries list explored
MaxLen == 3
\* largest value of the (scaled down) usize type: arithmetic is modulo UsizeMax + 1
UsizeMax == 6

\* the longest other_vector handed to insert_after_every
MaxFav == 2

\* the largest Cache.cache_size
MaxCap == 2

\* the last instant the clock can show
MaxTime == 3

\* the frames that texture_channel holds at most
MaxChannel == 1

(***************************************************************************)
(* Paths. A path is the sequence of its components; PathBuf::default() is  *)
(* the empty path.                                                         *)
(***************************************************************************)
DefaultPath == <<>>

\* the folders on disk
Folders == { <<"d1">>, <<"d2">>, <<"d1", "s">> }

\* the folder the session has opened
RootFolder == <<"d1">>

\* file names, in natural order
Names == <<"a", "b", "c", "d", "e", "f">>

\* the image files directly in the opened folder
ScrubPaths == { <<"d1", Names[k]>> : k \in 1..MaxLen }

\* an image file in a subfolder of the opened folder, and one in another folder
NestedFile == <<"d1", "s", "n">>
OutsideFile == <<"d2", "a">>

\* the image files on disk
Files == ScrubPaths \cup {NestedFile, OutsideFile}

\* the files that can be favourites when the folder is opened
FavPool == { <<"d1", "a">>, NestedFile }

\* Option<T>
None == [some |-> FALSE, v |-> <<>>]
Some(x) == [some |-> TRUE, v |-> x]

VARIABLES
    entries,            \* Scrubber.entries: Vec<PathBuf>
    index,              \* Scrubber.index: usize
    wrap,               \* Scrubber.wrap: bool
    favourites,         \* Scrubber.favourites: HashSet<PathBuf>
    current_path,       \* OculanteState.current_path: Option<PathBuf>
    folder_selected,    \* OculanteState.folder_selected: Option<PathBuf>
    is_loaded,          \* OculanteState.is_loaded
    is_favourite,       \* OculanteState.current_image_is_favourite
    db,                 \* OculanteState.db: Option<DB>, with DB.connection and DB.folder
    rows,               \* the rows of the favourites table of each folder's favourites.db
    dbfiles,            \* the folders in which a favourites.db file exists
    ret,                \* the path returned by the last Scrubber call
    panicked,           \* the process has aborted on a panic
    last,               \* history: the last operation, its argument and the state before it
    nextRun,            \* history: the cursor a run of consecutive next() calls started from, and its length
    main_vector,        \* insert_after_every: the argument main_vector
    other_vector,       \* insert_after_every: the argument other_vector
    after,              \* insert_after_every: the argument after, as an Option<usize>
    result,             \* insert_after_every: the vector returned
    data,               \* Cache.data: HashMap<PathBuf, CachedImage>, as path -> created
    cache_size,         \* Cache.cache_size: usize
    clock,              \* the last reading of std::time::Instant::now()
    run,                \* history: the inserts since the cache was last empty
    missing,            \* the files of the disk that are removed for the time being
    loading,            \* Player: the path being decoded for player.load, if any
    channel,            \* texture_channel: the frames sent and not yet received
    message_channel,    \* message_channel: the messages sent and not yet received
    pixels              \* Cache.data: for each cached path, the path its image was decoded from

scrubberVars == <<entries, index, wrap, favourites>>

appVars == <<current_path, folder_selected, is_loaded, is_favourite, db>>

diskVars == <<rows, dbfiles>>

orderVars == <<main_vector, other_vector, after, result>>

cacheVars == <<data, cache_size, clock, run>>

envVars == <<missing, loading, channel, message_channel, pixels>>

vars == <<entries, index, wrap, favourites, current_path, folder_selected, is_loaded,
          is_favourite, db, rows, dbfiles, ret, panicked, last, nextRun,
          main_vector, other_vector, after, result, data, cache_size, clock, run,
          missing, loading, channel, message_channel, pixels>>

(***************************************************************************)
(* usize arithmetic (src/scrubber.rs uses +=, saturating_sub).             *)
(***************************************************************************)
\* the outcome of a panic in the set of outcomes of an arithmetic operation
PANIC == -1

\* a.saturating_sub(b)
saturating_sub(a, b) == IF a >= b THEN a - b ELSE 0

\* x += 1 on usize: overflow panics with overflow checks (debug profile) and
\* wraps without them (release profile)
AddOne(x) == IF x < UsizeMax THEN {x + 1} ELSE {0, PANIC}

\* x -= 1 on usize: underflow panics with overflow checks and wraps without them
SubOne(x) == IF x > 0 THEN {x - 1} ELSE {UsizeMax, PANIC}

\* self.entries.get(i).cloned().unwrap_or_default()
GetOrDefault(ents, i) == IF i < Len(ents) THEN ents[i + 1] ELSE DefaultPath

\* entries.iter().position(|p| p == path), 0-based; -1 for None
Position(ents, path) ==
    IF \E k \in 1..Len(ents) : ents[k] = path
    THEN (CHOOSE k \in 1..Len(ents) : ents[k] = path /\ \A j \in 1..(k - 1) : ents[j] # path) - 1
    ELSE -1

\* Vec::remove(pos), pos 0-based
VecRemove(ents, pos) == [k \in 1..(Len(ents) - 1) |-> IF k <= pos THEN ents[k] ELSE ents[k + 1]]

\* all duplicate-free lists over S of length at most n
IsInjective(s) == \A i, j \in 1..Len(s) : i # j => s[i] # s[j]

RECURSIVE InjSeqs(_, _)
InjSeqs(S, n) ==
    IF n = 0 THEN { <<>> }
    ELSE LET shorter == InjSeqs(S, n - 1)
             longer == { Append(s, x) : s \in shorter, x \in S }
         IN shorter \cup { s \in longer : IsInjective(s) }

(***************************************************************************)
(* Scrubber::next, prev, set (src/scrubber.rs:43-74).                      *)
(***************************************************************************)
\* mutant: next() without the range check
NextIndex_NoRangeCheck(i1, len, w) == i1

\* mutant: next() that ignores wrap and always restarts at 0
NextIndex_AlwaysWrap(i1, len, w) == IF i1 > saturating_sub(len, 1) THEN 0 ELSE i1

\* mutant: next() that forgets the clamp of the no-wrap case
NextIndex_NoClamp(i1, len, w) == IF i1 > saturating_sub(len, 1) /\ w THEN 0 ELSE i1

\* mutant: next() that compares with len instead of len - 1
NextIndex_LateWrap(i1, len, w) == IF i1 > len THEN (IF w THEN 0 ELSE saturating_sub(len, 1)) ELSE i1

\* lines 45-51: the index after the increment, brought back into range
NextIndex(i1, len, w) ==
    IF i1 > saturating_sub(len, 1)
    THEN (IF w THEN 0 ELSE saturating_sub(len, 1))
    ELSE i1

\* mutant: prev() that stays on the first entry also with wrap
PrevIndex_NoWrap(idx, len, w) == IF idx = 0 THEN idx ELSE saturating_sub(idx, 1)

\* mutant: prev() that wraps to len instead of len - 1
PrevIndex_WrapLen(idx, len, w) == IF idx = 0 THEN (IF w THEN len ELSE idx) ELSE saturating_sub(idx, 1)

\* lines 57-63
PrevIndex(idx, len, w) ==
    IF idx = 0
    THEN (IF w THEN saturating_sub(len, 1) ELSE idx)
    ELSE saturating_sub(idx, 1)

\* mutant: set() that accepts index == len
SetIndex_OffByOne(idx, len, i) == IF i <= len THEN i ELSE idx

\* lines 69-71
SetIndex(idx, len, i) == IF i < len THEN i ELSE idx

\* the history of a call: the operation, its argument, the cursor before it, the
\* position the argument was found at (-1: not found) and whether its I/O could succeed
Record(op, arg, pos, io) == [op |-> op, arg |-> arg, idx |-> index, pos |-> pos, io |-> io]

\* the process aborts: nothing in memory changes any more
Panic(op, arg, pos, io) ==
    /\ panicked' = TRUE
    /\ last' = Record(op, arg, pos, io) /\ UNCHANGED <<orderVars, envVars, cacheVars>>
    /\ nextRun' = [start |-> index, n |-> 0]
    /\ UNCHANGED <<scrubberVars, appVars, ret>>

\* next(); last also records whether the call follows a prev() directly
Scrubber_next ==
    /\ ~panicked
    /\ \E i1 \in AddOne(index) :
         IF i1 = PANIC
         THEN Panic("next", DefaultPath, -1, TRUE) /\ UNCHANGED diskVars
         ELSE /\ index' = NextIndex(i1, Len(entries), wrap)
              /\ ret' = GetOrDefault(entries, index')
              /\ last' = [op |-> "next", arg |-> DefaultPath, idx |-> index, pos |-> -1,
                          io |-> TRUE, follows |-> last.op = "prev"]
              /\ UNCHANGED <<orderVars, envVars, cacheVars>>
              /\ nextRun' = [nextRun EXCEPT !.n = IF @ <= MaxLen THEN @ + 1 ELSE @]
              /\ UNCHANGED <<entries, wrap, favourites, panicked, appVars, diskVars>>

\* prev(); last also records whether the call follows a next() directly
Scrubber_prev ==
    /\ ~panicked
    /\ index' = PrevIndex(index, Len(entries), wrap)
    /\ ret' = GetOrDefault(entries, index')
    /\ last' = [op |-> "prev", arg |-> DefaultPath, idx |-> index, pos |-> -1,
                io |-> TRUE, follows |-> last.op = "next"]
    /\ UNCHANGED <<orderVars, envVars, cacheVars>>
    /\ nextRun' = [start |-> index', n |-> 0]
    /\ UNCHANGED <<entries, wrap, favourites, panicked, appVars, diskVars>>

\* the indices set() is called with: in range, == len, > len, usize::MAX
SetArgs == 0..(MaxLen + 1) \cup {UsizeMax}

Scrubber_set(i) ==
    /\ ~panicked
    /\ index' = SetIndex(index, Len(entries), i)
    /\ ret' = GetOrDefault(entries, index')
    /\ last' = Record("set", i, -1, TRUE) /\ UNCHANGED <<orderVars, envVars, cacheVars>>
    /\ nextRun' = [start |-> index', n |-> 0]
    /\ UNCHANGED <<entries, wrap, favourites, panicked, appVars, diskVars>>

\* state.scrubber.wrap = state.persistent_settings.wrap_folder (src/main.rs:768)
SetWrap(b) ==
    /\ ~panicked
    /\ wrap' = b
    /\ last' = Record("wrap", DefaultPath, -1, TRUE) /\ UNCHANGED <<orderVars, envVars, cacheVars>>
    /\ nextRun' = [start |-> index, n |-> 0]
    /\ UNCHANGED <<entries, index, favourites, ret, panicked, appVars, diskVars>>

(***************************************************************************)
(* Scrubber::delete. The session loop calls it (src/main.rs:400); it is    *)
(* modelled from the design text: "if path is present, drop it from the    *)
(* sequence; if its original position was at or before the cursor,         *)
(* decrement cursor by one; absence of path is a no-op".                   *)
(***************************************************************************)
\* the outcomes of the cursor update of delete: the new index, or PANIC
DeleteIndex(idx, pos) == IF pos <= idx THEN SubOne(idx) ELSE {idx}

Scrubber_delete(path) ==
    /\ ~panicked
    /\ LET pos == Position(entries, path)
       IN IF pos = -1
          THEN /\ last' = Record("delete", path, pos, TRUE) /\ UNCHANGED <<orderVars, envVars, cacheVars>>
               /\ nextRun' = [start |-> index, n |-> 0]
               /\ UNCHANGED <<scrubberVars, appVars, diskVars, ret, panicked>>
          ELSE \E i1 \in DeleteIndex(index, pos) :
                 IF i1 = PANIC
                 THEN Panic("delete", path, pos, TRUE) /\ UNCHANGED diskVars
                 ELSE /\ entries' = VecRemove(entries, pos)
                      /\ index' = i1
                      /\ last' = Record("delete", path, pos, TRUE) /\ UNCHANGED <<orderVars, envVars, cacheVars>>
                      /\ nextRun' = [start |-> index', n |-> 0]
                      /\ UNCHANGED <<wrap, favourites, appVars, diskVars, ret, panicked>>

(***************************************************************************)
(* DB (src/db.rs): the favourites store of one folder.                     *)
(***************************************************************************)
\* Option<DB>: conn is "none" for no DB, "open" for Some(connection) and
\* "closed" for a DB whose connection was taken by close()
NoDB == [conn |-> "none", folder |-> <<>>]

OpenDB(folder) == [conn |-> "open", folder |-> folder]

\* the separator of the components of a record
TAB == "\t"

\* img_path.strip_prefix(folder) is Ok
IsUnder(path, folder) ==
    /\ Len(path) >= Len(folder)
    /\ SubSeq(path, 1, Len(folder)) = folder

strip_prefix(path, folder) == SubSeq(path, Len(folder) + 1, Len(path))

\* a file name that holds a tab character
TabName == "x\ty"

\* the file of that name in the root folder
TabFile == <<"d1", TabName>>

\* component.as_os_str().to_str().unwrap(): the text of a component, as the
\* sequence of its tabs and of its pieces of text without a tab
to_str(component) == IF component = TabName THEN <<"x", TAB, "y">> ELSE <<component>>

\* Itertools::join: the texts of the components with sep between them
RECURSIVE join(_, _)
join(parts, sep) ==
    IF parts = <<>> THEN <<>>
    ELSE IF Len(parts) = 1 THEN to_str(parts[1])
    ELSE to_str(parts[1]) \o <<sep>> \o join(Tail(parts), sep)

\* DB::prepare_record, for a path under the folder
prepare_record(folder, path) == join(strip_prefix(path, folder), TAB)

\* the text of a sequence of pieces
RECURSIVE Text(_)
Text(pieces) == IF pieces = <<>> THEN "" ELSE pieces[1] \o Text(Tail(pieces))

\* str::split(sep): the texts between the separators, at least one (the
\* empty text for an empty record); cur is the part read so far
RECURSIVE split(_, _, _)
split(record, sep, cur) ==
    IF record = <<>> THEN <<Text(cur)>>
    ELSE IF record[1] = sep THEN <<Text(cur)>> \o split(Tail(record), sep, <<>>)
    ELSE split(Tail(record), sep, Append(cur, record[1]))

\* PathBuf::push of a relative part: pushing the empty text adds no component
push(path, part) == IF part = "" THEN path ELSE Append(path, part)

\* DB::join_path_parts, and join_path_parts of src/scrubber.rs: the parts
\* pushed onto an empty path; push_parts is the path after the first k pushes
RECURSIVE push_parts(_, _)
push_parts(parts, k) ==
    IF k = 0 THEN <<>> ELSE push(push_parts(parts, k - 1), parts[k])

join_path_parts(path_with_tabs) ==
    LET parts == split(path_with_tabs, TAB, <<>>) IN push_parts(parts, Len(parts))

\* the files that exist on the disk
DiskFiles == Files \cup {TabFile}

\* a file of the opened folder whose extension is not a supported one
TextFile == <<"d1", "t">>

\* is_ext_compatible(path): the extension of the file is in the supported set
is_ext_compatible(path) == path # TextFile

exists(file) == file \in DiskFiles \cup {TextFile} /\ file \notin missing

\* mutant: a DELETE without its WHERE clause
DeleteRow_NoWhere(table, record) == {}

\* "DELETE FROM favourites where path = (?1)"
DeleteRow(table, record) == table \ {record}

\* "INSERT INTO favourites (path) values (?1)", for a record that is not stored
InsertRow(table, record) == table \cup {record}

\* the result of a store call: it panicked, or it returned with these tables
Panicked(rws) == [panic |-> TRUE, rows |-> rws]
Returned(rws) == [panic |-> FALSE, rows |-> rws]

\* mutant: an insert that does not need the connection
DB_insert_NoConnection(d, rws, path, io_ok) ==
    IF ~IsUnder(path, d.folder) \/ ~io_ok THEN Panicked(rws)
    ELSE Returned([rws EXCEPT ![d.folder] = InsertRow(@, prepare_record(d.folder, path))])

\* mutant: a delete that encodes a path that is not under the folder
DB_delete_NoUnwrap(d, rws, path, io_ok) ==
    IF d.conn # "open" \/ ~io_ok THEN Panicked(rws)
    ELSE Returned([rws EXCEPT ![d.folder] = DeleteRow(@, join(<<path[Len(path)]>>, TAB))])

\* DB::insert(path) on store d with tables rws; io_ok: the statement can be
\* executed (no I/O error). Panics on the unwrap of strip_prefix, on the unwrap
\* of a taken connection and on the expect of a failed statement (I/O error,
\* primary key already stored)
DB_insert(d, rws, path, io_ok) ==
    IF ~IsUnder(path, d.folder) \/ d.conn # "open" \/ ~io_ok THEN Panicked(rws)
    ELSE LET record == prepare_record(d.folder, path)
         IN IF record \in rws[d.folder] THEN Panicked(rws)
            ELSE Returned([rws EXCEPT ![d.folder] = InsertRow(@, record)])

\* DB::delete(path)
DB_delete(d, rws, path, io_ok) ==
    IF ~IsUnder(path, d.folder) \/ d.conn # "open" \/ ~io_ok THEN Panicked(rws)
    ELSE LET record == prepare_record(d.folder, path)
         IN Returned([rws EXCEPT ![d.folder] = DeleteRow(@, record)])

\* DB::close(): the connection is taken, then closed. Panics on the unwrap of
\* a connection already taken and on the expect of a failed close
DB_close(d, io_ok) ==
    IF d.conn # "open" THEN [panic |-> TRUE, db |-> d]
    ELSE [panic |-> ~io_ok, db |-> [d EXCEPT !.conn = "closed"]]

\* DB::get_all() on an open store: the rows decoded and resolved against the
\* folder, those that exist on the disk kept
get_all(d, rws) ==
    { file \in { d.folder \o join_path_parts(r) : r \in rws[d.folder] } : exists(file) }

(***************************************************************************)
(* The session loop (src/main.rs, src/appstate.rs).                        *)
(***************************************************************************)
\* OculanteState::default(), as reset() assigns it (src/appstate.rs:148-150)
reset ==
    /\ entries' = <<>>
    /\ index' = 0
    /\ wrap' = FALSE
    /\ favourites' = {}
    /\ current_path' = None
    /\ folder_selected' = None
    /\ is_loaded' = FALSE
    /\ is_favourite' = FALSE
    /\ db' = NoDB

\* OculanteState::reload_image on a Scrubber with entries ents and index idx:
\* set(index) returns the current entry, which player.load hands to the
\* decoder, or fails when there is none
reload_image_on(ents, idx) ==
    LET idx2 == SetIndex(idx, Len(ents), idx)
    IN IF idx2 < Len(ents)
       THEN /\ entries' = ents
            /\ index' = idx2
            /\ ret' = GetOrDefault(ents, idx2)
            /\ is_loaded' = FALSE
            /\ loading' = Some(ents[idx2 + 1])
            /\ current_path' = Some(ents[idx2 + 1])
            /\ UNCHANGED <<wrap, favourites, folder_selected, is_favourite, db>>
       ELSE /\ reset
            /\ ret' = DefaultPath
            /\ UNCHANGED loading

reload_image ==
    /\ ~panicked
    /\ reload_image_on(entries, index)
    /\ last' = Record("reload", DefaultPath, -1, TRUE)
    /\ UNCHANGED <<orderVars, missing, channel, message_channel, pixels, cacheVars>>
    /\ nextRun' = [start |-> index', n |-> 0]
    /\ UNCHANGED <<diskVars, panicked>>

\* Event::Drop(file) for a file with a supported extension (src/main.rs:596-609)
Drop(p) ==
    /\ ~panicked
    /\ is_loaded' = FALSE
    /\ loading' = Some(p)
    /\ current_path' = Some(p)
    /\ last' = Record("drop", p, -1, TRUE)
    /\ UNCHANGED <<orderVars, missing, channel, message_channel, pixels, cacheVars>>
    /\ nextRun' = [start |-> index, n |-> 0]
    /\ UNCHANGED <<scrubberVars, folder_selected, is_favourite, db, diskVars, ret, panicked>>

\* key DeleteFile (src/main.rs:396-403): trash the current file, delete it from
\* the Scrubber, reload; trash_ok: trash::delete succeeds
DeleteFile(trash_ok) ==
    /\ ~panicked
    /\ UNCHANGED diskVars
    /\ IF ~current_path.some
       THEN /\ last' = Record("deletefile", DefaultPath, -1, trash_ok) /\ UNCHANGED <<orderVars, envVars, cacheVars>>
            /\ nextRun' = [start |-> index, n |-> 0]
            /\ UNCHANGED <<scrubberVars, appVars, ret, panicked>>
       ELSE LET path == current_path.v
                pos == Position(entries, path)
            IN IF ~trash_ok
               THEN Panic("deletefile", path, pos, FALSE)
               ELSE \E i1 \in (IF pos = -1 THEN {index} ELSE DeleteIndex(index, pos)) :
                      IF i1 = PANIC
                      THEN Panic("deletefile", path, pos, TRUE)
                      ELSE /\ reload_image_on(IF pos = -1 THEN entries ELSE VecRemove(entries, pos), i1)
                           /\ last' = Record("deletefile", path, pos, trash_ok)
                           /\ UNCHANGED <<orderVars, missing, channel, message_channel, pixels, cacheVars>>
                           /\ nextRun' = [start |-> index', n |-> 0]
                           /\ UNCHANGED panicked

\* mutant: the set is updated first, then the write to the store fails
ToggleFavourite_SetFirst(io_new, io_stmt) ==
    IF ~current_path.some
    THEN UNCHANGED <<favourites, is_favourite, db, diskVars, panicked>>
    ELSE /\ favourites' = IF current_path.v \notin favourites
                          THEN favourites \cup {current_path.v}
                          ELSE favourites \ {current_path.v}
         /\ panicked' = TRUE
         /\ UNCHANGED <<is_favourite, db, diskVars>>

\* what add_to_favourites does to the favourite set, the store and the flag
\* (src/main.rs:1291-1306); io_new: the store can be opened, io_stmt: the
\* statement can be executed
ToggleFavourite(io_new, io_stmt) ==
    IF ~current_path.some
    THEN UNCHANGED <<favourites, is_favourite, db, diskVars, panicked>>
    ELSE LET path == current_path.v
             must_open == db.conn = "none"
         IN IF must_open /\ ~folder_selected.some
            THEN panicked' = TRUE /\ UNCHANGED <<favourites, is_favourite, db, diskVars>>
            ELSE IF must_open /\ ~io_new
            THEN panicked' = TRUE /\ UNCHANGED <<favourites, is_favourite, db, diskVars>>
            ELSE LET d == IF must_open THEN OpenDB(folder_selected.v) ELSE db
                     res == IF path \notin favourites
                            THEN DB_insert(d, rows, path, io_stmt)
                            ELSE DB_delete(d, rows, path, io_stmt)
                 IN /\ dbfiles' = IF must_open THEN dbfiles \cup {d.folder} ELSE dbfiles
                    /\ rows' = res.rows
                    /\ IF res.panic
                       THEN panicked' = TRUE /\ UNCHANGED <<favourites, is_favourite, db>>
                       ELSE /\ db' = d
                            /\ favourites' = IF path \notin favourites
                                             THEN favourites \cup {path}
                                             ELSE favourites \ {path}
                            /\ is_favourite' = (path \notin favourites)
                            /\ UNCHANGED panicked

\* mutant: a toggle that rebuilds the sequence and restarts at the first entry
add_to_favourites_Rebuild(io_new, io_stmt) ==
    /\ ~panicked
    /\ ToggleFavourite(io_new, io_stmt)
    /\ entries' = [k \in 1..Len(entries) |-> entries[Len(entries) + 1 - k]]
    /\ index' = 0
    /\ last' = Record("favourite", current_path.v, -1, io_new /\ io_stmt) /\ UNCHANGED <<orderVars, envVars, cacheVars>>
    /\ nextRun' = [start |-> index', n |-> 0]
    /\ UNCHANGED <<wrap, current_path, folder_selected, is_loaded, ret>>

\* key Favourite (src/main.rs:390-392, 1290-1307)
add_to_favourites(io_new, io_stmt) ==
    /\ ~panicked
    /\ ToggleFavourite(io_new, io_stmt)
    /\ last' = Record("favourite", current_path.v, -1, io_new /\ io_stmt) /\ UNCHANGED <<orderVars, envVars, cacheVars>>
    /\ nextRun' = [start |-> index, n |-> 0]
    /\ UNCHANGED <<entries, index, wrap, current_path, folder_selected, is_loaded, ret>>

\* the removal branch of add_to_favourites (src/main.rs:1302-1304) applied to
\* path: db.delete(path), favourites.remove(path)
remove_favourite(path, io_stmt) ==
    /\ ~panicked
    /\ LET res == IF db.conn = "none" THEN Panicked(rows) ELSE DB_delete(db, rows, path, io_stmt)
       IN /\ rows' = res.rows
          /\ IF res.panic
             THEN panicked' = TRUE /\ UNCHANGED <<favourites, is_favourite>>
             ELSE /\ favourites' = favourites \ {path}
                  /\ is_favourite' = FALSE
                  /\ UNCHANGED panicked
    /\ last' = Record("unfavourite", path, IF path \in favourites THEN 0 ELSE -1, io_stmt) /\ UNCHANGED <<orderVars, envVars, cacheVars>>
    /\ nextRun' = [start |-> index, n |-> 0]
    /\ UNCHANGED <<entries, index, wrap, current_path, folder_selected, is_loaded, db, dbfiles, ret>>

(***************************************************************************)
(* The ordered-sequence builder (src/scrubber.rs:84-214).                  *)
(***************************************************************************)
Range(s) == { s[k] : k \in 1..Len(s) }

\* the orders a HashSet can be iterated in, and the outcomes of a shuffle
RECURSIVE Perms(_)
Perms(S) ==
    IF S = {} THEN {<<>>}
    ELSE UNION { { <<x>> \o s : s \in Perms(S \ {x}) } : x \in S }

\* the outcome of a call: a panic, or the vector returned
Unwound == [panic |-> TRUE, v |-> <<>>]
Vec(v) == [panic |-> FALSE, v |-> v]

\* the for loop of insert_after_every from the element of index i on, with
\* the result res and other_vector_i as they are before it; (i + 1) % after
\* is evaluated only when other_vector_i < other_vector.len(), and panics
\* for after = 0. The while loop appends the rest of other_vector
RECURSIVE insert_after_every_from(_, _, _, _, _, _)
insert_after_every_from(main, other, n, i, res, other_vector_i) ==
    IF i >= Len(main)
    THEN Vec(res \o SubSeq(other, other_vector_i + 1, Len(other)))
    ELSE LET element == main[i + 1]
         IN IF element \in Range(other)
            THEN insert_after_every_from(main, other, n, i + 1, res, other_vector_i)
            ELSE IF other_vector_i >= Len(other)
            THEN insert_after_every_from(main, other, n, i + 1, Append(res, element),
                                         other_vector_i)
            ELSE IF n = 0 THEN Unwound
            ELSE IF (i + 1) % n = 0
            THEN insert_after_every_from(main, other, n, i + 1,
                                         Append(Append(res, element), other[other_vector_i + 1]),
                                         other_vector_i + 1)
            ELSE insert_after_every_from(main, other, n, i + 1, Append(res, element),
                                         other_vector_i)

insert_after_every(main, other, n) == insert_after_every_from(main, other, n, 0, <<>>, 0)

\* the rank of a file name in natural_lexical_cmp
NaturalOrder == <<"a", "b", "c", "d", "e", "f", "n", TabName>>

file_name(path) == path[Len(path)]

Rank(path) == CHOOSE k \in 1..Len(NaturalOrder) : NaturalOrder[k] = file_name(path)

\* dir_files.sort_unstable_by(natural_lexical_cmp of the file names)
Sorted(S) == CHOOSE s \in Perms(S) : \A i, j \in 1..Len(s) : i < j => Rank(s[i]) < Rank(s[j])

\* the image files of the folder: WalkDir for walk_files, read_dir otherwise
DirFiles(folder, walk_files) ==
    { f \in DiskFiles \cup {TextFile} :
        /\ exists(f)
        /\ is_ext_compatible(f)
        /\ IsUnder(f, folder)
        /\ (walk_files \/ Len(f) = Len(folder) + 1) }

\* the lines of the favourites file resolved against the folder, those that
\* exist kept
FavouritesOf(folder, lines) ==
    { file \in { folder \o join_path_parts(l) : l \in lines } : exists(file) }

\* the favourites that a favourites file of the root folder can list
FavLines ==
    { prepare_record(RootFolder, p) : p \in FavPool \cup {<<"d1", "b">>, <<"d1", "gone">>, TextFile} }

\* no call of the builder has been made
OrderIdle ==
    /\ main_vector = <<>>
    /\ other_vector = <<>>
    /\ after = None
    /\ result = <<>>

\* insert_after_every(main_vector, other_vector, after) on the arguments drawn
insert_after_every_call ==
    /\ last.op = "new"
    /\ after.some
    /\ LET r == insert_after_every(main_vector, other_vector, after.v)
       IN /\ result' = r.v
          /\ panicked' = r.panic
    /\ last' = [op |-> "insert_after_every", arg |-> DefaultPath, idx |-> index,
                pos |-> -1, io |-> TRUE]
    /\ UNCHANGED <<scrubberVars, appVars, diskVars, ret, nextRun, cacheVars, envVars,
                   main_vector, other_vector, after>>

\* folder_path.parent() for a file, the folder itself otherwise
FolderOf(path) == IF path \in DiskFiles THEN SubSeq(path, 1, Len(path) - 1) ELSE path

\* get_image_filenames_for_directory(folder_path, Some(file), randomize,
\* walk_files, every_n) for a favourites file of these lines: the outcomes
\* of the call, one for each order of the HashSet and each shuffle, with the
\* vectors handed to insert_after_every. readable: the folder can be listed;
\* when it cannot, WalkDir yields errors only, which are filtered out, and
\* read_dir(folder)? returns the error (err)
get_image_filenames_for_directory(folder_path, lines, randomize, walk_files, every_n, readable) ==
    LET folder == FolderOf(folder_path)
        favs == FavouritesOf(folder, lines)
        files == IF readable THEN DirFiles(folder, walk_files) ELSE {}
    IN IF ~readable /\ ~walk_files
       THEN { [err |-> TRUE, dir_files |-> <<>>, favourites_vec |-> <<>>, favourites |-> {},
               out |-> Vec(<<>>)] }
       ELSE { [err |-> FALSE, dir_files |-> dir_files, favourites_vec |-> favourites_vec,
               favourites |-> favs,
               out |-> IF every_n.some
                       THEN insert_after_every(dir_files, favourites_vec, every_n.v)
                       ELSE Vec(dir_files)] :
              dir_files \in (IF randomize THEN Perms(files) ELSE {Sorted(files)}),
              favourites_vec \in Perms(favs) }

\* Scrubber::new(path, Some(file), randomize, walk_files, after); an Err of
\* the builder is replaced by the default: no entries, no favourites. io
\* records readable, walk records walk_files
Scrubber_new(path, lines, randomize, walk_files, readable) ==
    /\ last.op = "new"
    /\ main_vector = <<>> /\ other_vector = <<>>
    /\ \E r \in get_image_filenames_for_directory(path, lines, randomize, walk_files, after,
                                                  readable) :
          /\ main_vector' = r.dir_files
          /\ other_vector' = r.favourites_vec
          /\ result' = r.out.v
          /\ panicked' = r.out.panic
          /\ IF r.out.panic
             THEN UNCHANGED scrubberVars
             ELSE /\ entries' = r.out.v
                  /\ index' = IF Position(r.out.v, path) >= 0 THEN Position(r.out.v, path) ELSE 0
                  /\ wrap' = TRUE
                  /\ favourites' = r.favourites
    /\ last' = [op |-> "Scrubber_new", arg |-> path, idx |-> index, pos |-> -1, io |-> readable,
                walk |-> walk_files]
    /\ nextRun' = [start |-> index', n |-> 0]
    /\ UNCHANGED <<appVars, diskVars, ret, cacheVars, envVars, after>>

(***************************************************************************)
(* The decode cache (src/cache.rs). data keeps the instant each cached     *)
(* image was created at, pixels the file its image was decoded from.       *)
(***************************************************************************)
\* the paths of the images that are decoded
CachePaths == { <<"d1", "a">>, <<"d1", "b">>, <<"d1", "c">> }

\* the readings Instant::now() can give after a reading of t: the clock is
\* monotonically nondecreasing, so the same instant or a later one. Instants
\* are only compared, so one later instant stands for all of them
Now(t) == { u \in {t, t + 1} : u <= MaxTime }

\* mutant: an insert that keeps the created instant of an entry it overwrites
HashMap_insert_KeepOld(map, path, created) ==
    [p \in DOMAIN map \cup {path} |-> IF p \in DOMAIN map THEN map[p] ELSE created]

\* self.data.insert(path, CachedImage { data: img, created })
HashMap_insert(map, path, created) ==
    [p \in DOMAIN map \cup {path} |-> IF p = path THEN created ELSE map[p]]

\* self.data.remove(&key)
HashMap_remove(map, key) == [p \in DOMAIN map \ {key} |-> map[p]]

\* mutant: an entry of the latest created instant is evicted
oldest_key_Newest(map, order, k, latest, key) ==
    CHOOSE q \in DOMAIN map : \A p \in DOMAIN map : map[q] >= map[p]

\* mutant: the first entry of the iteration is evicted
oldest_key_First(map, order, k, latest, key) == order[1]

\* the loop of Cache::insert over the entries in the order the HashMap
\* iterates them, from the k-th on, with latest and key as they are before it
RECURSIVE oldest_key(_, _, _, _, _)
oldest_key(map, order, k, latest, key) ==
    IF k > Len(order) THEN key
    ELSE IF map[order[k]] < latest
    THEN oldest_key(map, order, k + 1, map[order[k]], order[k])
    ELSE oldest_key(map, order, k + 1, latest, key)

\* the inserts made since the cache was last empty by construction or by
\* clear(), each with its path and created instant; cut when more were made
\* than are recorded
NoRun == [ins |-> <<>>, cut |-> FALSE]

RunCap == Cardinality(CachePaths) + 1

Ran(r, path, created) ==
    IF r.cut \/ Len(r.ins) >= RunCap THEN [ins |-> <<>>, cut |-> TRUE]
    ELSE [r EXCEPT !.ins = Append(@, [path |-> path, created |-> created])]

\* no Cache is in use
CacheIdle ==
    /\ data = <<>>
    /\ cache_size = 0
    /\ clock = 0
    /\ run = NoRun

\* every file is on the disk, nothing is being decoded
EnvIdle ==
    /\ missing = {}
    /\ loading = None
    /\ channel = <<>>
    /\ message_channel = <<>>
    /\ pixels = <<>>

\* mutant: a get that refreshes the entry it reads
Cache_get_Touch(path) ==
    /\ data' = IF path \in DOMAIN data THEN HashMap_insert(data, path, clock) ELSE data
    /\ last' = [op |-> "get", arg |-> path, idx |-> index, pos |-> -1,
                io |-> path \in DOMAIN data]
    /\ UNCHANGED <<scrubberVars, appVars, diskVars, ret, panicked, nextRun, orderVars, envVars,
                   cache_size, clock, run>>

\* Cache::get(path); io records a hit
Cache_get(path) ==
    /\ last' = [op |-> "get", arg |-> path, idx |-> index, pos |-> -1,
                io |-> path \in DOMAIN data]
    /\ UNCHANGED <<scrubberVars, appVars, diskVars, ret, panicked, nextRun, orderVars, envVars,
                   cacheVars>>

\* self.data.clear()
clear ==
    /\ data' = <<>>
    /\ pixels' = <<>>
    /\ run' = NoRun

\* Cache::clear()
Cache_clear ==
    /\ clear
    /\ last' = [op |-> "clear", arg |-> DefaultPath, idx |-> index, pos |-> -1, io |-> TRUE]
    /\ UNCHANGED <<scrubberVars, appVars, diskVars, ret, panicked, nextRun, orderVars,
                   missing, loading, channel, message_channel, cache_size, clock>>

\* mutant: an insert that evicts as soon as the cache is full
insert_EvictWhenFull(path, img, created, latest) ==
    /\ LET stored == HashMap_insert(data, path, created)
           images == HashMap_insert(pixels, path, img)
       IN IF Cardinality(DOMAIN stored) >= cache_size
          THEN \E order \in Perms(DOMAIN stored) :
                  LET key == oldest_key(stored, order, 1, latest, DefaultPath)
                  IN /\ data' = HashMap_remove(stored, key)
                     /\ pixels' = HashMap_remove(images, key)
          ELSE /\ data' = stored
               /\ pixels' = images
    /\ clock' = latest

\* the body of Cache::insert(path, img): created is the reading of the clock
\* for the new entry, latest the reading the search for the oldest entry
\* starts from
insert(path, img, created, latest) ==
    /\ LET stored == HashMap_insert(data, path, created)
           images == HashMap_insert(pixels, path, img)
       IN IF Cardinality(DOMAIN stored) > cache_size
          THEN \E order \in Perms(DOMAIN stored) :
                  LET key == oldest_key(stored, order, 1, latest, DefaultPath)
                  IN /\ data' = HashMap_remove(stored, key)
                     /\ pixels' = HashMap_remove(images, key)
          ELSE /\ data' = stored
               /\ pixels' = images
    /\ clock' = latest

\* Cache::insert(path, img) for the image decoded from path; pos records
\* created
Cache_insert(path, created, latest) ==
    /\ insert(path, path, created, latest)
    /\ run' = Ran(run, path, created)
    /\ last' = [op |-> "insert", arg |-> path, idx |-> index, pos |-> created, io |-> TRUE]
    /\ UNCHANGED <<scrubberVars, appVars, diskVars, ret, panicked, nextRun, orderVars,
                   missing, loading, channel, message_channel, cache_size>>

(***************************************************************************)
(* Calls of the favourites store on their own.                             *)
(***************************************************************************)
\* the paths handed to the store
StorePaths == { RootFolder, <<"d1", "a">>, <<"d1", "gone">>, NestedFile, TabFile, OutsideFile }

\* db.insert(path)
Store_insert(path, io_ok) ==
    /\ ~panicked
    /\ LET res == DB_insert(db, rows, path, io_ok)
       IN /\ rows' = res.rows
          /\ panicked' = res.panic
    /\ last' = [op |-> "db_insert", arg |-> path, idx |-> index, pos |-> -1, io |-> io_ok]
    /\ UNCHANGED <<scrubberVars, appVars, dbfiles, ret, nextRun, orderVars, envVars, cacheVars>>

\* db.delete(path)
Store_delete(path, io_ok) ==
    /\ ~panicked
    /\ LET res == DB_delete(db, rows, path, io_ok)
       IN /\ rows' = res.rows
          /\ panicked' = res.panic
    /\ last' = [op |-> "db_delete", arg |-> path, idx |-> index, pos |-> -1, io |-> io_ok]
    /\ UNCHANGED <<scrubberVars, appVars, dbfiles, ret, nextRun, orderVars, envVars, cacheVars>>

\* mutant: a get_all that deletes the rows whose file is missing
Store_get_all_Prune ==
    /\ ~panicked
    /\ db.conn = "open"
    /\ favourites' = get_all(db, rows)
    /\ rows' = [rows EXCEPT ![db.folder] =
                  { r \in @ : exists(db.folder \o join_path_parts(r)) }]
    /\ last' = [op |-> "get_all", arg |-> DefaultPath, idx |-> index, pos |-> -1, io |-> TRUE]
    /\ UNCHANGED <<entries, index, wrap, appVars, dbfiles, ret, panicked, nextRun,
                   orderVars, cacheVars, envVars>>

\* favourites = db.get_all(), as browse_for_folder_path reads them; the
\* unwrap of a taken connection panics
Store_get_all ==
    /\ ~panicked
    /\ IF db.conn = "open"
       THEN favourites' = get_all(db, rows) /\ UNCHANGED panicked
       ELSE panicked' = TRUE /\ UNCHANGED favourites
    /\ last' = [op |-> "get_all", arg |-> DefaultPath, idx |-> index, pos |-> -1, io |-> TRUE]
    /\ UNCHANGED <<entries, index, wrap, appVars, diskVars, ret, nextRun,
                   orderVars, cacheVars, envVars>>

\* db.close()
Store_close(io_ok) ==
    /\ ~panicked
    /\ LET res == DB_close(db, io_ok)
       IN /\ db' = res.db
          /\ panicked' = res.panic
    /\ last' = [op |-> "db_close", arg |-> DefaultPath, idx |-> index, pos |-> -1, io |-> io_ok]
    /\ UNCHANGED <<scrubberVars, current_path, folder_selected, is_loaded, is_favourite,
                   diskVars, ret, nextRun, orderVars, cacheVars, envVars>>

\* the file that is removed from the disk and put back
Removable == <<"d1", "a">>

\* the file is removed from the disk by another program
RemoveFile(file) ==
    /\ file \notin missing
    /\ missing' = missing \cup {file}
    /\ last' = [op |-> "remove_file", arg |-> file, idx |-> index, pos |-> -1, io |-> TRUE]
    /\ UNCHANGED <<scrubberVars, appVars, diskVars, ret, panicked, nextRun, orderVars,
                   cacheVars, loading, channel, message_channel, pixels>>

\* the file is put back
RestoreFile(file) ==
    /\ file \in missing
    /\ missing' = missing \ {file}
    /\ last' = [op |-> "restore_file", arg |-> file, idx |-> index, pos |-> -1, io |-> TRUE]
    /\ UNCHANGED <<scrubberVars, appVars, diskVars, ret, panicked, nextRun, orderVars,
                   cacheVars, loading, channel, message_channel, pixels>>

\* a path under the folder encoded by prepare_record and decoded as get_all
\* decodes a row; ret is the path decoded
RoundTrip(path) ==
    /\ ~panicked
    /\ IsUnder(path, db.folder)
    /\ ret' = db.folder \o join_path_parts(prepare_record(db.folder, path))
    /\ last' = [op |-> "roundtrip", arg |-> path, idx |-> index, pos |-> -1, io |-> TRUE]
    /\ UNCHANGED <<scrubberVars, appVars, diskVars, panicked, nextRun, orderVars, envVars, cacheVars>>

(***************************************************************************)
(* Scrubber::rebuild. It is not in src/scrubber.rs; it is modelled from    *)
(* the design text, "recompute the sequence from the current favourite set *)
(* and non-favourite members via interleave; the cursor is not remapped",  *)
(* with insert_after_every as the interleave and the favourites in any     *)
(* order of their set.                                                     *)
(***************************************************************************)
Scrubber_rebuild(every_n) ==
    /\ ~panicked
    /\ \E favourites_vec \in Perms(favourites) :
          LET r == insert_after_every(entries, favourites_vec, every_n)
          IN /\ panicked' = r.panic
             /\ entries' = IF r.panic THEN entries ELSE r.v
    /\ last' = [op |-> "rebuild", arg |-> DefaultPath, idx |-> index, pos |-> every_n,
                io |-> TRUE]
    /\ nextRun' = [start |-> index, n |-> 0]
    /\ UNCHANGED <<index, wrap, favourites, appVars, diskVars, ret, orderVars, cacheVars,
                   envVars>>

(***************************************************************************)
(* Specifications. The initial states are those of a session that has      *)
(* opened folder d1: the Scrubber as Scrubber::new leaves it (index in     *)
(* range, or 0 for no entries), the first image shown, the store opened    *)
(* if the folder had a favourites.db.                                      *)
(***************************************************************************)
Init ==
    /\ entries \in InjSeqs(ScrubPaths, MaxLen)
    /\ index \in (IF entries = <<>> THEN {0} ELSE 0..(Len(entries) - 1))
    /\ wrap = TRUE
    /\ db = NoDB
    /\ favourites = {}
    /\ rows = [f \in Folders |-> {}]
    /\ dbfiles = {}
    /\ current_path = IF entries = <<>> THEN None ELSE Some(entries[index + 1])
    /\ folder_selected = Some(RootFolder)
    /\ is_loaded = TRUE
    /\ is_favourite = FALSE
    /\ ret = DefaultPath
    /\ panicked = FALSE
    /\ last = [op |-> "new", arg |-> DefaultPath, idx |-> index, pos |-> -1, io |-> TRUE]
    /\ nextRun = [start |-> index, n |-> 0]
    /\ OrderIdle
    /\ CacheIdle
    /\ EnvIdle

\* the folder listed recursively in natural order
Listing == [k \in 1..(MaxLen + 1) |-> IF k <= MaxLen THEN <<"d1", Names[k]>> ELSE NestedFile]

\* as Init, for a folder that may have a favourites.db with rows
InitFav ==
    /\ entries = Listing
    /\ index \in 0..(Len(entries) - 1)
    /\ wrap = TRUE
    /\ db \in {NoDB, OpenDB(RootFolder)}
    /\ favourites \in (IF db = NoDB THEN {{}} ELSE SUBSET FavPool)
    /\ rows = [f \in Folders |-> IF f = RootFolder
                                  THEN {prepare_record(f, p) : p \in favourites}
                                  ELSE {}]
    /\ dbfiles = IF db = NoDB THEN {} ELSE {RootFolder}
    /\ current_path = Some(entries[index + 1])
    /\ folder_selected = Some(RootFolder)
    /\ is_loaded = TRUE
    /\ is_favourite = (current_path.v \in favourites)
    /\ ret = DefaultPath
    /\ panicked = FALSE
    /\ last = [op |-> "new", arg |-> DefaultPath, idx |-> index, pos |-> -1, io |-> TRUE]
    /\ nextRun = [start |-> index, n |-> 0]
    /\ OrderIdle
    /\ CacheIdle
    /\ EnvIdle

\* the Scrubber driven by next, prev and set alone
NextNav ==
    \/ Scrubber_next
    \/ Scrubber_prev
    \/ \E i \in SetArgs : Scrubber_set(i)
    \/ \E b \in BOOLEAN : SetWrap(b)

SpecNav == Init /\ [][NextNav]_vars

\* the Scrubber with delete, and the handlers of the session loop that use it
Next ==
    \/ Scrubber_next
    \/ Scrubber_prev
    \/ \E i \in SetArgs : Scrubber_set(i)
    \/ \E b \in BOOLEAN : SetWrap(b)
    \/ \E p \in Files : Scrubber_delete(p)
    \/ reload_image
    \/ \E trash_ok \in BOOLEAN : DeleteFile(trash_ok)

Spec == Init /\ [][Next]_vars

\* the favourites of the session, with the Scrubber calls that move the
\* cursor and remove entries
NextFav ==
    \/ Scrubber_prev
    \/ \E p \in {NestedFile, OutsideFile} : Scrubber_delete(p)
    \/ reload_image
    \/ \E p \in {NestedFile, OutsideFile} : Drop(p)
    \/ \E io_new, io_stmt \in BOOLEAN : add_to_favourites(io_new, io_stmt)
    \/ \E p \in FavPool \cup {OutsideFile}, io_stmt \in BOOLEAN : remove_favourite(p, io_stmt)

SpecFav == InitFav /\ [][NextFav]_vars

\* no store is open and no folder has a favourites.db
StoreIdle ==
    /\ db = NoDB
    /\ rows = [f \in Folders |-> {}]
    /\ dbfiles = {}

\* OculanteState::default(): no folder, no image
SessionDefault ==
    /\ entries = <<>>
    /\ index = 0
    /\ wrap = FALSE
    /\ favourites = {}
    /\ current_path = None
    /\ folder_selected = None
    /\ is_loaded = FALSE
    /\ is_favourite = FALSE
    /\ ret = DefaultPath
    /\ panicked = FALSE
    /\ last = [op |-> "new", arg |-> DefaultPath, idx |-> 0, pos |-> -1, io |-> TRUE]
    /\ nextRun = [start |-> 0, n |-> 0]

\* the paths the vectors of insert_after_every are drawn from
OrderItems == ScrubPaths \cup {NestedFile}

\* the arguments of one call of the builder
InitOrder ==
    /\ SessionDefault
    /\ StoreIdle
    /\ CacheIdle
    /\ EnvIdle
    /\ main_vector \in InjSeqs(OrderItems, MaxLen)
    /\ other_vector \in InjSeqs(OrderItems, MaxFav)
    /\ after \in {None} \cup { Some(n) : n \in 0..MaxLen }
    /\ result = <<>>

\* one call of insert_after_every, or of Scrubber::new on the root folder
NextOrder ==
    \/ insert_after_every_call
    \/ \E path \in {RootFolder, <<"d1", "b">>}, lines \in SUBSET FavLines,
          randomize, walk_files, readable \in BOOLEAN :
          Scrubber_new(path, lines, randomize, walk_files, readable)

SpecOrder == InitOrder /\ [][NextOrder]_vars

\* an empty Cache of some capacity
InitCache ==
    /\ SessionDefault
    /\ StoreIdle
    /\ OrderIdle
    /\ EnvIdle
    /\ data = <<>>
    /\ cache_size \in 0..MaxCap
    /\ clock = 0
    /\ run = NoRun

\* the calls of the Cache, the clock read as each call reads it
NextCache ==
    \/ \E path \in CachePaths : Cache_get(path)
    \/ Cache_clear
    \/ \E path \in CachePaths : \E created \in Now(clock) : \E latest \in Now(created) :
          Cache_insert(path, created, latest)

SpecCache == InitCache /\ [][NextCache]_vars

\* an open store of the root folder with some rows
InitStore ==
    /\ SessionDefault
    /\ OrderIdle
    /\ CacheIdle
    /\ EnvIdle
    /\ db = OpenDB(RootFolder)
    /\ \E stored \in SUBSET (StorePaths \ {OutsideFile}) :
          rows = [f \in Folders |-> IF f = RootFolder
                                    THEN {prepare_record(f, p) : p \in stored}
                                    ELSE {}]
    /\ dbfiles = {RootFolder}

\* the calls of the store
NextStore ==
    \/ \E path \in StorePaths, io_ok \in BOOLEAN : Store_insert(path, io_ok)
    \/ \E path \in StorePaths, io_ok \in BOOLEAN : Store_delete(path, io_ok)
    \/ Store_get_all
    \/ \E path \in StorePaths : RoundTrip(path)
    \/ \E io_ok \in BOOLEAN : Store_close(io_ok)
    \/ RemoveFile(Removable)
    \/ RestoreFile(Removable)

SpecStore == InitStore /\ [][NextStore]_vars

\* a Scrubber with some entries listed, the cursor on one of them, and some
\* favourites, of which d1/s/n is not listed
InitRebuild ==
    /\ entries \in InjSeqs(ScrubPaths, MaxLen)
    /\ index \in (IF entries = <<>> THEN {0} ELSE 0..(Len(entries) - 1))
    /\ wrap = TRUE
    /\ favourites \in SUBSET (FavPool \cup {<<"d1", "b">>})
    /\ current_path = IF entries = <<>> THEN None ELSE Some(entries[index + 1])
    /\ folder_selected = Some(RootFolder)
    /\ is_loaded = TRUE
    /\ is_favourite = (current_path.some /\ current_path.v \in favourites)
    /\ ret = DefaultPath
    /\ panicked = FALSE
    /\ last = [op |-> "new", arg |-> DefaultPath, idx |-> index, pos |-> -1, io |-> TRUE]
    /\ nextRun = [start |-> index, n |-> 0]
    /\ StoreIdle
    /\ OrderIdle
    /\ CacheIdle
    /\ EnvIdle

\* rebuilds, and steps of the cursor between them
NextRebuild ==
    \/ \E every_n \in 0..MaxLen : Scrubber_rebuild(every_n)
    \/ Scrubber_next

SpecRebuild == InitRebuild /\ [][NextRebuild]_vars

(***************************************************************************)
(* The session: choosing a folder or an image, and the favourites store    *)
(* that follows (src/main.rs). The folder is listed by the Scrubber with   *)
(* randomize and walk_files set and without interleaving.                  *)
(***************************************************************************)
\* the folders that the folder dialog returns, and the one of them that may
\* hold a favourites file from an earlier session
SessionFolders == { <<"d2">>, <<"d1", "s">> }

StoredFolder == <<"d2">>

\* browse_for_folder_path (src/main.rs:1202-1250) when the dialog returns
\* folder: the store is opened and read when the folder has a favourites
\* file, and left as it is when it has none. io_new: DB::new succeeds
browse_for_folder_path(folder, io_new) ==
    /\ ~panicked
    /\ folder_selected' = Some(folder)
    /\ IF folder \in dbfiles /\ ~io_new
       THEN /\ panicked' = TRUE
            /\ UNCHANGED <<scrubberVars, current_path, is_loaded, db, loading>>
       ELSE \E ents \in Perms(DirFiles(folder, TRUE)) :
               LET d == IF folder \in dbfiles THEN OpenDB(folder) ELSE db
               IN /\ db' = d
                  /\ entries' = ents
                  /\ index' = 0
                  /\ wrap' = TRUE
                  /\ favourites' = IF folder \in dbfiles THEN get_all(d, rows) ELSE {}
                  /\ IF Len(ents) > 0
                     THEN /\ current_path' = Some(ents[1])
                          /\ is_loaded' = FALSE
                          /\ loading' = Some(ents[1])
                     ELSE UNCHANGED <<current_path, is_loaded, loading>>
                  /\ UNCHANGED panicked
    /\ last' = [op |-> "browse_folder", arg |-> folder, idx |-> index, pos |-> -1,
                io |-> io_new]
    /\ nextRun' = [start |-> index', n |-> 0]
    /\ UNCHANGED <<is_favourite, diskVars, ret, orderVars, cacheVars, missing, channel, message_channel, pixels>>

\* browse_for_image_path (src/main.rs:1159-1199) when the dialog returns an
\* image file: no folder is selected any more, the store is left as it is
browse_for_image_path(file) ==
    /\ ~panicked
    /\ folder_selected' = None
    /\ is_loaded' = FALSE
    /\ loading' = Some(file)
    /\ current_path' = Some(file)
    /\ last' = [op |-> "browse_image", arg |-> file, idx |-> index, pos |-> -1, io |-> TRUE]
    /\ nextRun' = [start |-> index, n |-> 0]
    /\ UNCHANGED <<scrubberVars, is_favourite, db, diskVars, ret, panicked, orderVars,
                   cacheVars, missing, channel, message_channel, pixels>>

\* if let Some(ref mut db) = state.db { db.close() }: the store, when there
\* is one, is closed; state.db stays Some
close_store(op, io_ok) ==
    /\ ~panicked
    /\ IF db.conn = "none"
       THEN UNCHANGED <<db, panicked>>
       ELSE LET res == DB_close(db, io_ok)
            IN /\ db' = res.db
               /\ panicked' = res.panic
    /\ last' = [op |-> op, arg |-> DefaultPath, idx |-> index, pos |-> -1, io |-> io_ok]
    /\ nextRun' = [start |-> index, n |-> 0]
    /\ UNCHANGED <<scrubberVars, current_path, folder_selected, is_loaded, is_favourite,
                   diskVars, ret, orderVars, cacheVars, envVars>>

\* key Quit (src/main.rs:404-412): the store is closed and the exit of the
\* application is requested
Quit(io_ok) == close_store("quit", io_ok)

\* Event::Exit (src/main.rs:554-564), sent when the application closes
Exit(io_ok) == close_store("exit", io_ok)

\* no exit has been requested
Running == last.op \notin {"quit", "exit"}

\* the session starts with no folder and no image; one folder may hold a
\* favourites file from an earlier session
InitSession ==
    /\ SessionDefault
    /\ db = NoDB
    /\ dbfiles \in {{}, {StoredFolder}}
    /\ \E favs \in SUBSET {OutsideFile} :
          rows = [f \in Folders |-> IF f \in dbfiles
                                    THEN {prepare_record(f, p) : p \in favs}
                                    ELSE {}]
    /\ OrderIdle
    /\ CacheIdle
    /\ EnvIdle

\* the events of a session, and another program that removes an image of
\* a folder and puts it back; after Quit only the Exit event follows, and
\* nothing follows the Exit event
NextSession ==
    \/ Running /\ \E folder \in SessionFolders, io_new \in BOOLEAN :
                      browse_for_folder_path(folder, io_new)
    \/ Running /\ \E file \in {NestedFile, OutsideFile} :
                      exists(file) /\ browse_for_image_path(file)
    \/ Running /\ \E p \in {NestedFile, OutsideFile} : exists(p) /\ Drop(p)
    \/ Running /\ RemoveFile(OutsideFile)
    \/ Running /\ RestoreFile(OutsideFile)
    \/ Running /\ \E io_new, io_stmt \in BOOLEAN : add_to_favourites(io_new, io_stmt)
    \/ Running /\ \E io_ok \in BOOLEAN : Quit(io_ok)
    \/ last.op # "exit" /\ \E io_ok \in BOOLEAN : Exit(io_ok)

SpecSession == InitSession /\ [][NextSession]_vars

(***************************************************************************)
(* Frames: the decoder sends the frames of the image it was handed over    *)
(* texture_channel, and drawe takes them one at a time (src/main.rs). A    *)
(* frame is kept as the file it was decoded from and its source kind.      *)
(***************************************************************************)
FrameSources == { "Still", "EditResult", "AnimationStart", "Animation" }

\* the files dropped on the window
FramePaths == { NestedFile, OutsideFile }

\* the decoder thread sends a frame of the file it was last handed; a file
\* handed later replaces the one before, frames already sent stay in the
\* channel
Decoder_send(source) ==
    /\ ~panicked
    /\ loading.some
    /\ Len(channel) < MaxChannel
    /\ channel' = Append(channel, [img |-> loading.v, source |-> source])
    /\ last' = [op |-> "send", arg |-> loading.v, idx |-> index, pos |-> -1, io |-> TRUE]
    /\ UNCHANGED <<scrubberVars, appVars, diskVars, ret, panicked, nextRun, orderVars,
                   cacheVars, missing, loading, message_channel, pixels>>

\* mutant: frames of every source are offered to the cache
CachedSource_Any(source) == TRUE

\* match frame.source: the arm that offers the frame to the cache
CachedSource(source) == source = "Still"

\* drawe when texture_channel holds a frame (src/main.rs:738-858), with
\* keep_view not set and load_channel empty: the favourite flag is refreshed,
\* the Scrubber is rebuilt from the current path when no folder is selected,
\* and a Still frame is inserted into the cache under the current path when
\* max_cache is not 0. created, latest: the readings of the clock in
\* Cache::insert. last records the frame; the insert is not recorded in run
drawe(created, latest) ==
    /\ ~panicked
    /\ channel # <<>>
    /\ LET frame == Head(channel)
       IN /\ channel' = Tail(channel)
          /\ is_favourite' = IF current_path.some THEN current_path.v \in favourites
                             ELSE is_favourite
          /\ IF ~folder_selected.some /\ current_path.some
             THEN \E r \in get_image_filenames_for_directory(current_path.v, {}, FALSE, FALSE,
                                                             None, TRUE) :
                     /\ entries' = r.out.v
                     /\ index' = IF Position(r.out.v, current_path.v) >= 0
                                 THEN Position(r.out.v, current_path.v) ELSE 0
                     /\ wrap' = TRUE
                     /\ favourites' = r.favourites
             ELSE UNCHANGED scrubberVars
          /\ IF CachedSource(frame.source) /\ current_path.some /\ cache_size # 0
             THEN /\ insert(current_path.v, frame.img, created, latest)
                  /\ run' = [ins |-> <<>>, cut |-> TRUE]
             ELSE UNCHANGED <<data, pixels, clock, run>>
          /\ is_loaded' = TRUE
          /\ last' = [op |-> "drawe", arg |-> frame.img, idx |-> index, pos |-> -1,
                      io |-> TRUE, source |-> frame.source]
    /\ nextRun' = [start |-> index', n |-> 0]
    /\ UNCHANGED <<current_path, folder_selected, db, diskVars, ret, panicked, orderVars,
                   missing, loading, message_channel, cache_size>>

\* keys LosslessRotateRight and LosslessRotateLeft (src/main.rs:413-455);
\* tx_ok: lossless_tx succeeds
LosslessRotate(tx_ok) ==
    /\ ~panicked
    /\ IF current_path.some /\ tx_ok
       THEN /\ is_loaded' = FALSE
            /\ clear
            /\ loading' = current_path
       ELSE UNCHANGED <<is_loaded, data, pixels, run, loading>>
    /\ last' = [op |-> "rotate", arg |-> current_path.v, idx |-> index, pos |-> -1,
                io |-> tx_ok]
    /\ UNCHANGED <<scrubberVars, current_path, folder_selected, is_favourite, db, diskVars,
                   ret, panicked, nextRun, orderVars, missing, channel, message_channel, cache_size, clock>>

\* the session starts with no image and an empty cache of the capacity set
InitFrames ==
    /\ SessionDefault
    /\ StoreIdle
    /\ OrderIdle
    /\ EnvIdle
    /\ data = <<>>
    /\ cache_size \in 0..MaxCap
    /\ clock = 0
    /\ run = NoRun

NextFrames ==
    \/ \E p \in FramePaths : Drop(p)
    \/ \E source \in FrameSources : Decoder_send(source)
    \/ \E created \in Now(clock) : \E latest \in Now(created) : drawe(created, latest)
    \/ \E tx_ok \in BOOLEAN : LosslessRotate(tx_ok)

SpecFrames == InitFrames /\ [][NextFrames]_vars

(***************************************************************************)
(* Loading: every player.load hands the decoder a sender of                *)
(* message_channel next to the path (src/main.rs, src/appstate.rs), and    *)
(* update takes one message per pass (src/main.rs:698-710).                *)
(***************************************************************************)
\* enum Message: the kinds the decoder reports while it decodes
MessageKinds == { "Warning", "LoadError" }

\* the decoder thread reports on the file it was last handed; a LoadError
\* ends the decode of that file without a frame
Decoder_message(msg) ==
    /\ ~panicked
    /\ loading.some
    /\ Len(message_channel) < MaxChannel
    /\ message_channel' = Append(message_channel, msg)
    /\ loading' = IF msg = "LoadError" THEN None ELSE loading
    /\ last' = [op |-> "report", arg |-> loading.v, idx |-> index, pos |-> -1,
                io |-> msg = "LoadError"]
    /\ UNCHANGED <<scrubberVars, appVars, diskVars, ret, panicked, nextRun, orderVars,
                   cacheVars, missing, channel, pixels>>

\* mutant: no message ends a load
IsLoadError_Never(msg) == FALSE

\* if let Message::LoadError(_) = msg
IsLoadError(msg) == msg = "LoadError"

\* update when message_channel holds a message (src/main.rs:698-720), the
\* slideshow being off: the message is taken, and a LoadError marks the load
\* as over. last records the message and is_loaded before the pass
update ==
    /\ ~panicked
    /\ message_channel # <<>>
    /\ LET msg == Head(message_channel)
       IN /\ message_channel' = Tail(message_channel)
          /\ is_loaded' = IF IsLoadError(msg) THEN TRUE ELSE is_loaded
          /\ last' = [op |-> "update", arg |-> msg, idx |-> index, pos |-> -1,
                      io |-> IsLoadError(msg), loaded |-> is_loaded]
    /\ UNCHANGED <<scrubberVars, current_path, folder_selected, is_favourite, db, diskVars,
                   ret, panicked, nextRun, orderVars, cacheVars, missing, loading, channel,
                   pixels>>

\* the decoder delivers a frame or a LoadError for the file it was handed
Deliver ==
    \/ \E source \in FrameSources : Decoder_send(source)
    \/ Decoder_message("LoadError")

\* a pass of drawe that finds a frame
Receive == \E created \in Now(clock) : \E latest \in Now(created) : drawe(created, latest)

\* the session starts with no image and the cache switched off
InitLoad ==
    /\ InitFrames
    /\ cache_size = 0

NextLoad ==
    \/ \E p \in FramePaths : Drop(p)
    \/ \E tx_ok \in BOOLEAN : LosslessRotate(tx_ok)
    \/ \E source \in FrameSources : Decoder_send(source)
    \/ \E msg \in MessageKinds : Decoder_message(msg)
    \/ Receive
    \/ update

\* the window loop is not lazy (src/main.rs:108-118), so update and drawe run
\* again and again; the decoder is taken to deliver in the end
FairLoad ==
    /\ WF_vars(Deliver)
    /\ WF_vars(Receive)
    /\ WF_vars(update)

SpecLoad == InitLoad /\ [][NextLoad]_vars /\ FairLoad

(***************************************************************************)
(* Properties.                                                             *)
(***************************************************************************)
\* the steps of an operation: every action records its name in last
IsStep(op) == last'.op = op

\* s is t with some elements dropped
RECURSIVE IsSubsequence(_, _)
IsSubsequence(s, t) ==
    IF s = <<>> THEN TRUE
    ELSE IF t = <<>> THEN FALSE
    ELSE IF Head(s) = Head(t) THEN IsSubsequence(Tail(s), Tail(t))
    ELSE IsSubsequence(s, Tail(t))

\* C1: for a non-empty entries list whose index starts in [0, len), the index
\* is in [0, len) after every sequence of next(), prev() and set(i) calls,
\* whatever i and wrap are.
C1_IndexInRange == entries # <<>> => index \in 0..(Len(entries) - 1)

\* C1: set() was called with an index past the end, wrap being off
C1_Witness ==
    /\ Len(entries) >= 2 /\ ~wrap
    /\ last.op = "set" /\ last.arg > Len(entries)
    /\ index = Len(entries) - 1

\* C2: on an empty entries list next(), prev() and set(i) never panic,
\* return the default path and leave the index at 0, with wrap on and off.
C2_EmptySafe ==
    entries = <<>> =>
        /\ ~panicked
        /\ index = 0
        /\ last.op \in {"next", "prev", "set"} => ret = DefaultPath

\* C2: next() was called on an empty list with wrap off
C2_Witness == entries = <<>> /\ ~wrap /\ last.op = "next" /\ ~panicked

\* C3: next() on a non-empty list with cursor c moves to c + 1 when
\* c + 1 < len, else to 0 with wrap and to len - 1 without, and returns the
\* entry at the new cursor.
C3_Next ==
    [][(IsStep("next") /\ entries # <<>>) =>
        /\ ~panicked'
        /\ index' = IF index + 1 < Len(entries) THEN index + 1
                    ELSE IF wrap THEN 0 ELSE Len(entries) - 1
        /\ ret' = entries[index' + 1]]_vars

\* C3: next() at the last entry without wrap stayed at len - 1
C3_Witness ==
    /\ last.op = "next" /\ ~wrap /\ Len(entries) >= 2
    /\ last.idx = Len(entries) - 1 /\ index = Len(entries) - 1
    /\ ret = entries[Len(entries)]

\* C4: prev() on a non-empty list with cursor c moves to c - 1 when c > 0,
\* else to len - 1 with wrap and stays at 0 without, and returns the entry at
\* the new cursor.
C4_Prev ==
    [][(IsStep("prev") /\ entries # <<>>) =>
        /\ ~panicked'
        /\ index' = IF index > 0 THEN index - 1
                    ELSE IF wrap THEN Len(entries) - 1 ELSE 0
        /\ ret' = entries[index' + 1]]_vars

\* C4: prev() at the first entry with wrap jumped to the last entry
C4_Witness ==
    /\ last.op = "prev" /\ wrap /\ Len(entries) >= 2
    /\ last.idx = 0 /\ index = Len(entries) - 1
    /\ ret = entries[Len(entries)]

\* C5: with wrap, len calls of next() from any cursor of a list of length
\* len >= 1 come back to that cursor and return its entry.
C5_WrapRoundTrip ==
    (wrap /\ entries # <<>> /\ nextRun.n = Len(entries)) =>
        /\ index = nextRun.start
        /\ ret = entries[nextRun.start + 1]

\* C5: a full round of next() calls on the longest list, from the middle
C5_Witness ==
    /\ wrap /\ Len(entries) = MaxLen
    /\ nextRun.n = MaxLen /\ nextRun.start = 1
    /\ last.op = "next"

\* C6: set(i) with i >= len changes neither the cursor nor the entries, does
\* not fail and returns the entry that was current; with i < len it moves the
\* cursor to i and returns entries[i].
C6_Set ==
    [][IsStep("set") =>
        /\ ~panicked'
        /\ entries' = entries
        /\ IF last'.arg >= Len(entries)
           THEN index' = index /\ ret' = GetOrDefault(entries, index)
           ELSE index' = last'.arg /\ ret' = entries[last'.arg + 1]]_vars

\* C6: set() past the end returned the current entry
C6_Witness ==
    /\ last.op = "set" /\ last.arg >= Len(entries)
    /\ Len(entries) >= 2 /\ last.idx = 1 /\ index = 1
    /\ ret = entries[2] /\ ~panicked

\* C7: delete(path) of a path at position p drops exactly that entry, and
\* moves the cursor down by one if and only if p <= cursor.
C7_DeleteShiftsCursor ==
    [][(IsStep("delete") /\ last'.pos >= 0) =>
        /\ ~panicked'
        /\ entries' = VecRemove(entries, last'.pos)
        /\ index' = IF last'.pos <= index THEN index - 1 ELSE index]_vars

\* C8: no operation panics (unless the file system refuses) and the cursor of
\* a non-empty list is in [0, len), after every sequence of next, prev, set and
\* delete.
C8_NoPanicCursorInRange ==
    /\ panicked => ~last.io
    /\ entries # <<>> => index \in 0..(Len(entries) - 1)

C10_ToggleKeepsSequence ==
    [][/\ IsStep("favourite") => (entries' = entries /\ index' = index)
       /\ IsSubsequence(entries', entries)]_vars

\* C10: a favourite was toggled off while the cursor was past the first entry
C10_Witness ==
    /\ last.op = "favourite" /\ ~panicked /\ last.io
    /\ last.arg # DefaultPath /\ last.arg \notin favourites /\ rows[RootFolder] # {}
    /\ index > 0

\* a call of the sequence builder has returned
Built == last.op \in {"insert_after_every", "Scrubber_new"} /\ ~panicked

\* the non-favourite items among the first k items of res
NonFavourites(res, k) == Cardinality({ j \in 1..k : res[j] \notin Range(other_vector) })

\* the k-th item of res is a favourite that a non-favourite item follows
SplicedAt(res, k) ==
    /\ res[k] \in Range(other_vector)
    /\ \E j \in (k + 1)..Len(res) : res[j] \notin Range(other_vector)

\* C11: for everyN >= 1, every favourite that is spliced into the output
\* before main is exhausted stands right after a number of non-favourite
\* items that is a multiple of everyN.
C11_SpliceAtMultiples ==
    (Built /\ after.some /\ after.v >= 1) =>
        \A k \in 1..Len(result) :
            SplicedAt(result, k) => NonFavourites(result, k - 1) % after.v = 0

\* C12: every element of the interleaved sequence is an element of main, so
\* a favourite with no entry in main is not in the output.
C12_OnlyMainItems == Built => Range(result) \subseteq Range(main_vector)

\* C13: with everyN = 0 the builder does not panic and splices nothing: no
\* favourite stands before a non-favourite item of the output.
C13_ZeroSpacing ==
    (last.op \in {"insert_after_every", "Scrubber_new"} /\ after = Some(0)) =>
        /\ ~panicked
        /\ \A k \in 1..Len(result) : ~SplicedAt(result, k)

\* C14: from an empty cache of capacity c, after any insert, get and clear
\* calls the number of cached entries is at most c.
C14_WithinCapacity == Cardinality(DOMAIN data) <= cache_size

\* C15: an insert that leaves more entries than the capacity removes exactly
\* one entry, one of the minimum creation timestamp among the entries then
\* present; an insert that does not removes nothing.
C15_EvictsOldest ==
    [][ IsStep("insert") =>
          LET stored == HashMap_insert(data, last'.arg, last'.pos)
          IN IF Cardinality(DOMAIN stored) > cache_size
             THEN \E q \in DOMAIN stored :
                     /\ \A p \in DOMAIN stored : stored[q] <= stored[p]
                     /\ data' = HashMap_remove(stored, q)
             ELSE data' = stored ]_vars

\* the inserts recorded are of distinct paths
DistinctPaths(ins) == \A i, j \in 1..Len(ins) : i # j => ins[i].path # ins[j].path

\* the inserts recorded have strictly increasing timestamps
Increasing(ins) == \A i, j \in 1..Len(ins) : i < j => ins[i].created < ins[j].created

Min(a, b) == IF a <= b THEN a ELSE b

\* C16: k inserts of distinct paths with strictly increasing timestamps into
\* an empty cache of capacity c >= 1 leave exactly the last min(k, c) paths
\* inserted.
C16_KeepsNewest ==
    (cache_size >= 1 /\ ~run.cut /\ DistinctPaths(run.ins) /\ Increasing(run.ins)) =>
        LET k == Len(run.ins)
        IN DOMAIN data = { run.ins[j].path : j \in (k - Min(k, cache_size) + 1)..k }

C16_Witness ==
    /\ cache_size = 2 /\ ~run.cut /\ Len(run.ins) = 3
    /\ DistinctPaths(run.ins) /\ Increasing(run.ins)
    /\ DOMAIN data = {run.ins[2].path, run.ins[3].path}
    /\ last.op = "insert"

\* insert(p1), insert(p2), insert(p1), insert(p3) at increasing instants
\* into an empty cache
ReinsertRun ==
    /\ ~run.cut /\ Len(run.ins) = 4 /\ Increasing(run.ins)
    /\ run.ins[3].path = run.ins[1].path
    /\ Cardinality({run.ins[1].path, run.ins[2].path, run.ins[4].path}) = 3

\* C17: the insert of a path that is cached sets its creation timestamp to
\* the instant of that insert; with capacity 2, insert(p1), insert(p2),
\* insert(p1), insert(p3) at increasing instants keeps exactly p1 and p3.
C17_ReinsertResetsAge ==
    [][ /\ (IsStep("insert") /\ last'.arg \in DOMAIN data /\ last'.arg \in DOMAIN data')
            => data'[last'.arg] = last'.pos
        /\ (cache_size' = 2 /\ ReinsertRun')
            => DOMAIN data' = {run'.ins[1].path, run'.ins[4].path} ]_vars

C17_Witness ==
    /\ cache_size = 2 /\ ReinsertRun
    /\ DOMAIN data = {run.ins[1].path, run.ins[4].path}
    /\ data[run.ins[1].path] = run.ins[3].created
    /\ run.ins[3].created > run.ins[1].created

\* C18: get(path) leaves the entries of the cache and every creation
\* timestamp as they were, so what a later insert evicts does not depend on
\* the get calls made.
C18_GetChangesNothing ==
    [][ IsStep("get") => (data' = data /\ cache_size' = cache_size /\ clock' = clock) ]_vars

C18_Witness ==
    /\ last.op = "get" /\ last.io
    /\ Cardinality(DOMAIN data) = 2
    /\ clock > data[last.arg]

\* C19: for any path under root, decoding against root the record that
\* encodes the path gives the path back.
C19_RoundTrip == last.op = "roundtrip" => ret = last.arg

\* the rows of the paths other than path are the same in both tables
OtherRowsKept(path, before, after_call) ==
    \A q \in StorePaths :
        (IsUnder(q, db.folder) /\ q # path) =>
            (prepare_record(db.folder, q) \in before
                <=> prepare_record(db.folder, q) \in after_call)

\* C20: on an open store, for a path under the folder whose file exists,
\* getAll() contains the path after insert(path) and does not contain it after
\* delete(path), and the rows of the other paths are kept by both calls.
C20_InsertDeleteGetAll ==
    [][ (/\ last'.op \in {"db_insert", "db_delete"}
         /\ ~panicked'
         /\ IsUnder(last'.arg, db.folder)
         /\ exists(last'.arg))
        => /\ IsStep("db_insert") => last'.arg \in get_all(db, rows')
           /\ IsStep("db_delete") => last'.arg \notin get_all(db, rows')
           /\ OtherRowsKept(last'.arg, rows[db.folder], rows'[db.folder]) ]_vars

\* the rows of the store decoded and resolved against its folder
DecodedRows == { db.folder \o join_path_parts(r) : r \in rows[db.folder] }

\* C21: getAll() returns exactly the decoded rows whose file is on the disk
\* at the time of the call and deletes no row, so a row whose file is missing
\* is left out while it is missing and returned again once the file is back.
C21_GetAllFiltersOnly ==
    [][ (IsStep("get_all") /\ ~panicked') =>
           /\ rows' = rows
           /\ favourites' = { f \in DecodedRows : f \in DiskFiles \ missing } ]_vars

C21_Witness ==
    /\ last.op = "get_all" /\ ~panicked
    /\ Removable \in missing
    /\ Removable \in DecodedRows
    /\ Removable \notin favourites
    /\ NestedFile \in favourites

StoreCalls == {"db_insert", "db_delete", "get_all", "db_close"}

\* C22: after close() every insert, delete, getAll or close call on the store
\* panics and changes neither the rows nor the state in memory.
C22_ClosedStoreFailsLoudly ==
    [][ (db.conn = "closed" /\ last'.op \in StoreCalls) =>
           (panicked' /\ rows' = rows /\ db' = db /\ favourites' = favourites) ]_vars

C22_Witness ==
    /\ db.conn = "closed" /\ panicked
    /\ last.op = "db_insert" /\ last.io
    /\ IsUnder(last.arg, db.folder)
    /\ prepare_record(db.folder, last.arg) \notin rows[db.folder]

\* C27: encoding a path that is not under root panics: insert and delete of
\* such a path write and delete no row.
C27_NotUnderRootFailsLoudly ==
    [][ (last'.op \in {"db_insert", "db_delete"} /\ ~IsUnder(last'.arg, db.folder)) =>
           (panicked' /\ rows' = rows) ]_vars

C27_Witness ==
    /\ last.op = "db_delete" /\ last.io /\ last.arg = OutsideFile
    /\ db.conn = "open" /\ panicked
    /\ rows[db.folder] # {}

\* C29: a favourite action that fails to open the store or to write to it
\* leaves the favourite set in memory as it was.
C29_FailedToggleKeepsSet ==
    [][ (IsStep("favourite") /\ panicked') =>
           (favourites' = favourites /\ is_favourite' = is_favourite) ]_vars

C29_Witness ==
    /\ last.op = "favourite" /\ panicked /\ ~last.io
    /\ last.arg \notin favourites
    /\ favourites # {}

\* C28: when the folder cannot be read or walked, Scrubber::new does not
\* panic and yields no entries, no favourites and cursor 0.
C28_UnreadableFolderIsEmpty ==
    (last.op = "Scrubber_new" /\ ~last.io) =>
        (~panicked /\ entries = <<>> /\ favourites = {} /\ index = 0)

\* C30: rebuild(everyN) leaves the cursor as it was and yields a sequence of
\* the same entries and the same length, so the cursor stays in range.
C30_RebuildKeepsCursorAndEntries ==
    [][ (IsStep("rebuild") /\ ~panicked') =>
           /\ index' = index
           /\ Range(entries') = Range(entries)
           /\ Len(entries') = Len(entries) ]_vars

\* C23: at every point of a session an open favourites store is the store
\* of the currently selected folder
C23_OpenStoreIsOfSelectedFolder ==
    db.conn = "open" => folder_selected = Some(db.folder)

\* C24: a favourite action on a current image with no store yet opens the
\* store of the selected folder and writes to it without failing, whenever
\* the store can be opened and written
C24_FavouriteOpensStore ==
    [][(IsStep("favourite") /\ current_path.some /\ db.conn = "none" /\ last'.io)
       => (/\ folder_selected.some
           /\ ~panicked'
           /\ db' = OpenDB(folder_selected.v))]_vars

\* C25: a frame taken from the channel whose source is not Still leaves
\* the decode cache as it is: no entry added, none overwritten
C25_OnlyStillIsCached ==
    [][(IsStep("drawe") /\ Head(channel).source # "Still")
       => (data' = data /\ pixels' = pixels)]_vars

\* a frame that is not Still was taken while the cache was in use and did
\* not hold the current path
C25_Witness ==
    /\ last.op = "drawe"
    /\ last.source # "Still"
    /\ cache_size > 0
    /\ current_path.some
    /\ current_path.v \notin DOMAIN data
    /\ data # <<>>

\* C26: every entry of the decode cache holds the image decoded from its
\* own key path
C26_EntriesHoldOwnImage ==
    \A p \in DOMAIN pixels : pixels[p] = p

\* C36: with wrap and a non-empty sequence, from every cursor in [0, len)
\* next() followed by prev() and prev() followed by next() both come back
\* to that cursor
C36_NextPrevInverse ==
    [][(wrap /\ entries # <<>> /\ last.idx < Len(entries) /\ ~panicked)
       => /\ (last.op = "next" /\ IsStep("prev")) => index' = last.idx
          /\ (last.op = "prev" /\ IsStep("next")) => (~panicked' /\ index' = last.idx)]_vars

\* next() wrapped from the last entry to the first and prev() went back
C36_Witness ==
    /\ last.op = "prev" /\ last.follows
    /\ wrap /\ Len(entries) >= 2
    /\ last.idx = 0 /\ index = Len(entries) - 1
    /\ ~panicked

\* C37: with capacity >= 1 and strictly increasing timestamps an insert
\* does not evict the entry it has just stored: the path is cached after the
\* call, with the image and the instant of that insert
C37_InsertKeepsOwnEntry ==
    [][(/\ IsStep("insert")
        /\ cache_size >= 1
        /\ \A p \in DOMAIN data : data[p] < last'.pos
        /\ last'.pos < clock')
       => (/\ last'.arg \in DOMAIN data'
           /\ data'[last'.arg] = last'.pos
           /\ pixels'[last'.arg] = last'.arg)]_vars

\* the second of two inserts of distinct paths at increasing instants into
\* a cache of capacity 1 evicted the first and kept its own entry
C37_Witness ==
    /\ last.op = "insert" /\ cache_size = 1
    /\ ~run.cut /\ Len(run.ins) = 2
    /\ DistinctPaths(run.ins) /\ Increasing(run.ins)
    /\ clock > last.pos
    /\ DOMAIN data = {last.arg}

\* C38: the insert of a path that is cached, into a cache that holds at
\* most capacity entries, leaves the set of cached paths as it was
C38_ReinsertEvictsNothing ==
    [][(/\ IsStep("insert")
        /\ last'.arg \in DOMAIN data
        /\ Cardinality(DOMAIN data) <= cache_size)
       => DOMAIN data' = DOMAIN data]_vars

\* a full cache of capacity 2 after a path it held was inserted again
C38_Witness ==
    /\ last.op = "insert" /\ cache_size = 2
    /\ ~run.cut /\ Len(run.ins) = 3
    /\ run.ins[3].path \in {run.ins[1].path, run.ins[2].path}
    /\ run.ins[1].path # run.ins[2].path
    /\ DOMAIN data = {run.ins[1].path, run.ins[2].path}

\* the items of s that are favourites, and those that are not, in order
FavouritesIn(s) == SelectSeq(s, LAMBDA x : x \in Range(other_vector))

NonFavouritesIn(s) == SelectSeq(s, LAMBDA x : x \notin Range(other_vector))

\* C32: when every favourite is an entry of main (neither list has
\* duplicates) the interleaved sequence is a permutation of main in which
\* the non-favourites stand in their order in main and the favourites in
\* their order in the favourites list, those left over at the end
C32_InterleavePermutes ==
    (/\ last.op \in {"insert_after_every", "Scrubber_new"}
     /\ after.some
     /\ Range(other_vector) \subseteq Range(main_vector))
    => (/\ ~panicked
        /\ Len(result) = Len(main_vector)
        /\ Range(result) = Range(main_vector)
        /\ NonFavouritesIn(result) = NonFavouritesIn(main_vector)
        /\ FavouritesIn(result) = other_vector)

\* C33: every entry of the sequence that Scrubber::new builds for a folder,
\* with or without interleaving, has a supported extension and lies under
\* the folder, directly in it when walk_files is not set
C33_EntriesAreFolderImages ==
    (last.op = "Scrubber_new" /\ ~panicked) =>
        \A k \in 1..Len(entries) :
            /\ is_ext_compatible(entries[k])
            /\ IsUnder(entries[k], FolderOf(last.arg))
            /\ (~last.walk => Len(entries[k]) = Len(FolderOf(last.arg)) + 1)

\* C34: close() is called at most once on a store: the Exit event that
\* finds the store already closed does not close it again, so it leaves the
\* store as it is and does not fail
C34_ExitClosesOnce ==
    [][(IsStep("exit") /\ db.conn = "closed") => (~panicked' /\ db' = db)]_vars

\* C35: a favourite toggle on an image of the selected folder, with the
\* store of that folder open or not opened yet, inserts only a key that is
\* not stored and deletes only a key that is stored, does not fail when the
\* store can be written, and leaves the favourite set equal to the stored
\* rows whose files exist
C35_SetMirrorsStore ==
    [][(/\ IsStep("favourite")
        /\ current_path.some /\ folder_selected.some
        /\ IsUnder(current_path.v, folder_selected.v)
        /\ exists(current_path.v)
        /\ db \in {NoDB, OpenDB(folder_selected.v)}
        /\ last'.io)
       => LET folder == folder_selected.v
              record == prepare_record(folder, current_path.v)
          IN /\ ~panicked'
             /\ current_path.v \notin favourites => record \notin rows[folder]
             /\ current_path.v \in favourites => record \in rows[folder]
             /\ favourites' = get_all(OpenDB(folder), rows')]_vars

\* C39: every load request, which sets is_loaded to false, is eventually
\* followed by is_loaded being true, provided the decoder eventually delivers
\* a frame or a LoadError message for it; so the handlers that act only while
\* is_loaded is true are never blocked forever by a failed load.
C39_LoadCompletes == (loading.some /\ ~is_loaded) ~> is_loaded

\* C39: a LoadError was received while the load was pending
C39_Witness ==
    /\ last.op = "update" /\ last.io /\ ~last.loaded
    /\ is_loaded
    /\ ~loading.some

============================================================================
